---- MODULE Spec2Model ----
(***************************************************************************)
(* Cluster tomography: the n-dimensional Hoshen-Kopelman labeler with its  *)
(* union-find substrate (cluster_functions.py), the gap statistics, the    *)
(* tomography analysis (spatial_tomography.py) and the particle cluster    *)
(* membership (cluster_membership.py).                                     *)
(*                                                                         *)
(* Arrays are functions over 0-based index ranges, as in the source.  A    *)
(* lattice site is named by its flat (row-major) index; coords[k] is its   *)
(* k-th coordinate, axes ordered slowest first.                            *)
(***************************************************************************)
EXTENDS Integers, Sequences, FiniteSets, TLC

VARIABLES
    pc,         \* position of the running function
    sizes,      \* hoshen_kopelman_nd: system size along each axis
    bc,         \* boundary condition along each axis, "o" or "p"
    bonds,      \* bonds[n][site]: connectivity along axis n
    labels,     \* the label array
    pos,        \* loop counter over sites / boundary coordinates
    n,          \* primary axis of the sweep, axis of the boundary pass
    m,          \* axis of the cross-term loop
    reduce,     \* the reduce option, read when the labels are returned
    size,       \* linear size of the 2d system
    both_directions, \* get_gapstat_2d: scan the columns as well
    gap_stat,   \* g(s) as the histogram f and the normalization norm: g = f / norm
    binned,     \* occupied and unoccupied bins, binned[x*size + y] is occupied[x,y]
    LC,         \* analysis: "include" or "exclude" the largest cluster
    LC_label,   \* label of the largest cluster
    LC_size,    \* size of the largest cluster
    corner,     \* corner contribution as the fraction num / den
    positions,  \* particle positions (x, y), in units of 1/Resolution diameter
    particle_bin, \* index of the bin to which each particle belongs
    clusters    \* list of the lists of particles of each cluster

vars == <<pc, sizes, bc, bonds, labels, pos, n, m, reduce, size, both_directions,
          gap_stat, binned, LC, LC_label, LC_size, corner, positions, particle_bin,
          clusters>>

\* the variables of the callers of the labeler
callerVars == <<size, both_directions, gap_stat, binned, LC, LC_label, LC_size, corner,
                positions, particle_bin, clusters>>

\* the variables of a stepwise run of the labeler
sweepVars == <<sizes, bonds, pos, n, m, reduce>>

\* value of a variable that the running function does not have
None == "None"

-----------------------------------------------------------------------------
(* Bounds of the model *)

\* 1d and 2d lattices have at most MaxSites sites
MaxSites == 6

\* 2d lattices with an axis of size 1 have at most MaxThin sites
MaxThin == 4

Dims == 1..2

\* the 3d lattice, checked with open boundaries
Cube == [k \in 0..2 |-> 2]

-----------------------------------------------------------------------------
(* Lattice geometry *)

Dim(sz) == Cardinality(DOMAIN sz)

RECURSIVE ProdFrom(_, _)
ProdFrom(sz, k) == IF k \notin DOMAIN sz THEN 1 ELSE sz[k] * ProdFrom(sz, k + 1)

NumSites(sz) == ProdFrom(sz, 0)

\* convert_vec[k] = prod(sizes[k+1:])
convert_vec(sz, k) == ProdFrom(sz, k + 1)

\* k-th coordinate of the site with flat index idx
Coord(sz, idx, k) == (idx \div convert_vec(sz, k)) % sz[k]

Sites(sz) == 0..(NumSites(sz) - 1)

Axes(sz) == 0..(Dim(sz) - 1)

-----------------------------------------------------------------------------
(* Union-find substrate *)

RECURSIVE find(_, _)
find(x, lab) == IF lab[x] # x THEN find(lab[x], lab) ELSE x

-----------------------------------------------------------------------------
(* hoshen_kopelman_nd: the assignments of the three passes *)

\* a scan that stops at the first nonzero coordinate, whatever its bond
RECURSIVE ScanAxesFirstNonzero(_, _, _, _)
ScanAxesFirstNonzero(bnds, sz, idx, k) ==
    IF k >= Dim(sz) THEN Dim(sz)
    ELSE IF Coord(sz, idx, k) # 0 THEN (IF bnds[k][idx] # 0 THEN k ELSE Dim(sz))
    ELSE ScanAxesFirstNonzero(bnds, sz, idx, k + 1)

\* the axis at which the scan "for n in range(d)" of one site reaches an
\* activated bond with a nonzero coordinate and breaks; Dim(sz) if it never does
RECURSIVE ScanAxes(_, _, _, _)
ScanAxes(bnds, sz, idx, k) ==
    IF k >= Dim(sz) THEN Dim(sz)
    ELSE IF Coord(sz, idx, k) # 0 /\ bnds[k][idx] # 0 THEN k
    ELSE ScanAxes(bnds, sz, idx, k + 1)

\* labels[idx_site] = find(idx_neighbor, labels)
PrimaryAssign(lab, sz, idx, a) ==
    [lab EXCEPT ![idx] = find(idx - convert_vec(sz, a), lab)]

\* a cross-term that relabels the neighbour itself instead of its root
CrossAssignDirect(lab, bnds, sz, idx, mm) ==
    IF Coord(sz, idx, mm) # 0 /\ bnds[mm][idx] # 0
    THEN [lab EXCEPT ![idx - convert_vec(sz, mm)] = find(idx, lab)]
    ELSE lab

\* one iteration of "for m in range(n+1,d)"
CrossAssign(lab, bnds, sz, idx, mm) ==
    IF Coord(sz, idx, mm) # 0 /\ bnds[mm][idx] # 0
    THEN [lab EXCEPT ![find(idx - convert_vec(sz, mm), lab)] = find(idx, lab)]
    ELSE lab

\* a boundary pass that ignores the boundary conditions
IsPeriodicAlways(b, a) == TRUE

\* whether the boundary pass handles axis a
IsPeriodic(b, a) == b[a] = "p"

\* a boundary union that points the neighbour's root at the site itself
BoundaryAssignNoFind(lab, bnds, sz, idx, a) ==
    IF bnds[a][idx] # 0
    THEN LET idx_neighbor == idx + convert_vec(sz, a) * (sz[a] - 1)
         IN  [lab EXCEPT ![find(idx_neighbor, lab)] = idx]
    ELSE lab

\* one iteration of the boundary pass of axis a, at a site with coords[a] = 0
BoundaryAssign(lab, bnds, sz, idx, a) ==
    IF bnds[a][idx] # 0
    THEN LET idx_neighbor == idx + convert_vec(sz, a) * (sz[a] - 1)
         IN  [lab EXCEPT ![find(idx_neighbor, lab)] = lab[find(idx, lab)]]
    ELSE lab

\* the next site after idx with coords[a] = 0, NumSites(sz) if there is none
RECURSIVE NextBoundarySite(_, _, _)
NextBoundarySite(sz, a, idx) ==
    IF idx + 1 >= NumSites(sz) THEN NumSites(sz)
    ELSE IF Coord(sz, idx + 1, a) = 0 THEN idx + 1
    ELSE NextBoundarySite(sz, a, idx + 1)

\* a canonicalization that leaves the entry as it is
CanonAssignSkip(lab, idx) == lab

\* labels[idx] = int(find(idx, labels))
CanonAssign(lab, idx) == [lab EXCEPT ![idx] = find(idx, lab)]

\* np.unique(labels, return_inverse=True)[1]
UniqueInverse(lab) ==
    [i \in DOMAIN lab |->
        Cardinality({v \in {lab[j] : j \in DOMAIN lab} : v < lab[i]})]

-----------------------------------------------------------------------------
(* hoshen_kopelman_nd as a function of its arguments *)

\* for m in range(n+1,d)
RECURSIVE CrossLoop(_, _, _, _, _)
CrossLoop(lab, bnds, sz, idx, mm) ==
    IF mm >= Dim(sz) THEN lab
    ELSE CrossLoop(CrossAssign(lab, bnds, sz, idx, mm), bnds, sz, idx, mm + 1)

\* the body of the main sweep for one coordinate
SiteVisit(lab, bnds, sz, idx) ==
    CHOOSE after \in
        {IF a >= Dim(sz) THEN lab
         ELSE CrossLoop(PrimaryAssign(lab, sz, idx, a), bnds, sz, idx, a + 1) :
            a \in {ScanAxes(bnds, sz, idx, 0)}} : TRUE

\* for coords in product(*[range(size) for size in sizes])
RECURSIVE MainSweep(_, _, _, _)
MainSweep(lab, bnds, sz, idx) ==
    IF idx >= NumSites(sz) THEN lab
    ELSE MainSweep(SiteVisit(lab, bnds, sz, idx), bnds, sz, idx + 1)

\* for coords in product(*positions), from the boundary site idx on
RECURSIVE BoundaryAxis(_, _, _, _, _)
BoundaryAxis(lab, bnds, sz, a, idx) ==
    IF idx >= NumSites(sz) THEN lab
    ELSE BoundaryAxis(BoundaryAssign(lab, bnds, sz, idx, a), bnds, sz, a,
                      NextBoundarySite(sz, a, idx))

\* apply periodic boundary conditions
RECURSIVE BoundaryPass(_, _, _, _, _)
BoundaryPass(lab, bnds, sz, b, a) ==
    IF a >= Dim(sz) THEN lab
    ELSE BoundaryPass(IF IsPeriodic(b, a) THEN BoundaryAxis(lab, bnds, sz, a, 0) ELSE lab,
                      bnds, sz, b, a + 1)

\* label each site with its equivalence class
RECURSIVE CanonPass(_, _)
CanonPass(lab, idx) ==
    IF idx \notin DOMAIN lab THEN lab ELSE CanonPass(CanonAssign(lab, idx), idx + 1)

hoshen_kopelman_nd(bnds, sz, b, red) ==
    LET swept == MainSweep([i \in Sites(sz) |-> i], bnds, sz, 0)
        wrapped == BoundaryPass(swept, bnds, sz, b, 0)
        canon == CanonPass(wrapped, 0)
    IN  IF red THEN UniqueInverse(canon) ELSE canon

-----------------------------------------------------------------------------
(* hoshen_kopelman_nd, one assignment at a time *)

SiteLimit(sz) ==
    IF Dim(sz) > 1 /\ \E a \in Axes(sz) : sz[a] = 1 THEN MaxThin ELSE MaxSites

Lattices ==
    UNION {{sz \in [0..(dd - 1) -> 1..MaxSites] : NumSites(sz) <= SiteLimit(sz)} : dd \in Dims}
    \cup {Cube}

BoundaryConditions(sz) ==
    IF Dim(sz) \in Dims THEN [Axes(sz) -> {"o", "p"}] ELSE {[a \in Axes(sz) |-> "o"]}

\* every assignment of the bond arrays; on the 3d lattice the wraparound
\* entries, which open boundaries never read, are left inactive
BondArrays(sz) ==
    IF Dim(sz) \in Dims THEN [Axes(sz) -> [Sites(sz) -> {0, 1}]]
    ELSE LET inner == {p \in Axes(sz) \X Sites(sz) : Coord(sz, p[2], p[1]) # 0}
         IN  {[a \in Axes(sz) |-> [i \in Sites(sz) |->
                    IF <<a, i>> \in inner THEN f[<<a, i>>] ELSE 0]] :
                f \in [inner -> {0, 1}]}

InitHK ==
    /\ sizes \in Lattices
    /\ bc \in BoundaryConditions(sizes)
    /\ bonds \in BondArrays(sizes)
    /\ labels = [i \in Sites(sizes) |-> i]
    /\ pc = "sweep"
    /\ pos = 0
    /\ n = 0
    /\ m = 0
    /\ reduce = FALSE
    /\ size = None /\ both_directions = None /\ gap_stat = None /\ binned = None
    /\ LC = None /\ LC_label = None /\ LC_size = None /\ corner = None
    /\ positions = None /\ particle_bin = None /\ clusters = None

\* a site without an activated bond to a predecessor: the scan ends without a union
SweepNoBond ==
    /\ pc = "sweep"
    /\ ScanAxes(bonds, sizes, pos, 0) = Dim(sizes)
    /\ IF pos + 1 < NumSites(sizes)
       THEN /\ pos' = pos + 1
            /\ pc' = "sweep"
       ELSE /\ pos' = 0
            /\ pc' = "boundary"
    /\ UNCHANGED <<sizes, bc, bonds, labels, n, m, reduce>>
    /\ UNCHANGED callerVars

\* the primary union of a site visit
SweepPrimary ==
    /\ pc = "sweep"
    /\ ScanAxes(bonds, sizes, pos, 0) < Dim(sizes)
    /\ n' = ScanAxes(bonds, sizes, pos, 0)
    /\ m' = n' + 1
    /\ labels' = PrimaryAssign(labels, sizes, pos, n')
    /\ pc' = "cross"
    /\ UNCHANGED <<sizes, bc, bonds, pos, reduce>>
    /\ UNCHANGED callerVars

\* one iteration of the cross-term loop
SweepCross ==
    /\ pc = "cross"
    /\ m < Dim(sizes)
    /\ labels' = CrossAssign(labels, bonds, sizes, pos, m)
    /\ m' = m + 1
    /\ UNCHANGED <<pc, sizes, bc, bonds, pos, n, reduce>>
    /\ UNCHANGED callerVars

\* the break that ends the site visit
SweepBreak ==
    /\ pc = "cross"
    /\ m >= Dim(sizes)
    /\ n' = 0
    /\ m' = 0
    /\ IF pos + 1 < NumSites(sizes)
       THEN /\ pos' = pos + 1
            /\ pc' = "sweep"
       ELSE /\ pos' = 0
            /\ pc' = "boundary"
    /\ UNCHANGED <<sizes, bc, bonds, labels, reduce>>
    /\ UNCHANGED callerVars

\* the boundary pass leaves axis n: the next axis, or the canonicalization
LeaveAxis ==
    /\ pos' = 0
    /\ IF n + 1 < Dim(sizes)
       THEN /\ n' = n + 1
            /\ pc' = "boundary"
       ELSE /\ n' = 0
            /\ pc' = "canon"

\* bc[n] is not 'p'
BoundarySkipAxis ==
    /\ pc = "boundary"
    /\ ~IsPeriodic(bc, n)
    /\ LeaveAxis
    /\ UNCHANGED <<sizes, bc, bonds, labels, m, reduce>>
    /\ UNCHANGED callerVars

\* one coordinate of the boundary pass of a periodic axis
BoundaryVisit ==
    /\ pc = "boundary"
    /\ IsPeriodic(bc, n)
    /\ labels' = BoundaryAssign(labels, bonds, sizes, pos, n)
    /\ IF NextBoundarySite(sizes, n, pos) < NumSites(sizes)
       THEN /\ pos' = NextBoundarySite(sizes, n, pos)
            /\ UNCHANGED <<pc, n>>
       ELSE LeaveAxis
    /\ UNCHANGED <<sizes, bc, bonds, m, reduce>>
    /\ UNCHANGED callerVars

\* one index of the canonicalization pass
Canonicalize ==
    /\ pc = "canon"
    /\ labels' = CanonAssign(labels, pos)
    /\ IF pos + 1 < NumSites(sizes)
       THEN /\ pos' = pos + 1
            /\ pc' = "canon"
       ELSE /\ pos' = 0
            /\ pc' = "return"
    /\ UNCHANGED <<sizes, bc, bonds, n, m, reduce>>
    /\ UNCHANGED callerVars

\* if reduce: ...; return labels
Return ==
    /\ pc = "return"
    /\ \E r \in BOOLEAN :
        /\ reduce' = r
        /\ labels' = IF r THEN UniqueInverse(labels) ELSE labels
    /\ pc' = "done"
    /\ UNCHANGED <<sizes, bc, bonds, pos, n, m>>
    /\ UNCHANGED callerVars

NextHK ==
    \/ SweepNoBond
    \/ SweepPrimary
    \/ SweepCross
    \/ SweepBreak
    \/ BoundarySkipAxis
    \/ BoundaryVisit
    \/ Canonicalize
    \/ Return

SpecHK == InitHK /\ [][NextHK]_vars

\* the stepwise run returns what the function returns
StepwiseAgrees ==
    pc = "done" => labels = hoshen_kopelman_nd(bonds, sizes, bc, reduce)

-----------------------------------------------------------------------------
(* Connectivity of the bond graph, independently of the labeler *)

\* the sites that the activated bonds stored at site i link it to: the
\* predecessor along an axis where the coordinate is nonzero, the far end
\* of a periodic axis where it is 0
LinkedFrom(bnds, sz, b, i) ==
    {i - convert_vec(sz, a) : a \in {k \in Axes(sz) : bnds[k][i] # 0 /\ Coord(sz, i, k) # 0}}
    \cup
    {i + convert_vec(sz, a) * (sz[a] - 1) :
        a \in {k \in Axes(sz) : bnds[k][i] # 0 /\ Coord(sz, i, k) = 0 /\ b[k] = "p"}}

\* the bond graph: adjacency in both directions
Adjacency(bnds, sz, b) ==
    CHOOSE adj \in
        {[i \in Sites(sz) |-> out[i] \cup {j \in Sites(sz) : i \in out[j]}] :
            out \in {[i \in Sites(sz) |-> LinkedFrom(bnds, sz, b, i)]}} : TRUE

RECURSIVE Grow(_, _)
Grow(adj, S) ==
    LET T == S \cup UNION {adj[k] : k \in S}
    IN  IF T = S THEN S ELSE Grow(adj, T)

\* the sites joined to i by a path of activated bonds
Component(bnds, sz, b, i) ==
    CHOOSE c \in {Grow(adj, {i}) : adj \in {Adjacency(bnds, sz, b)}} : TRUE

AllOpen(sz) == [a \in Axes(sz) |-> "o"]

-----------------------------------------------------------------------------
(* C1: the labels returned with reduce=False are equal for two sites       *)
(* exactly when a path of activated bonds joins them, a bond at a nonzero  *)
(* coordinate linking the site to its predecessor along the axis and a     *)
(* bond at coordinate 0 linking it to the far end only on a periodic axis. *)
C1_LabelsAreComponents ==
    (pc = "done" /\ ~reduce) =>
        \A adj \in {Adjacency(bonds, sizes, bc)} :
            \A i \in Sites(sizes) :
                {j \in Sites(sizes) : labels[j] = labels[i]} = Grow(adj, {i})

\* a finished run on a lattice with two axes longer than 1, in which two
\* sites share a label only thanks to a wraparound bond, and two sites differ
C1_Witness ==
    /\ pc = "done" /\ ~reduce
    /\ Dim(sizes) = 2 /\ sizes[0] >= 2 /\ sizes[1] >= 2
    /\ \E i, j \in Sites(sizes) :
        /\ labels[i] = labels[j]
        /\ j \notin Component(bonds, sizes, AllOpen(sizes), i)
    /\ \E i, j \in Sites(sizes) : labels[i] # labels[j]

-----------------------------------------------------------------------------
\* the same partition of the sites
SamePartition(l1, l2) ==
    \A i, j \in DOMAIN l1 : (l1[i] = l1[j]) <=> (l2[i] = l2[j])

\* the bond arrays with the wraparound entries of axis a inactive
ClearWrap(bnds, sz, a) ==
    [bnds EXCEPT ![a] = [i \in Sites(sz) |-> IF Coord(sz, i, a) = 0 THEN 0 ELSE bnds[a][i]]]

C2_OpenIsPeriodicWithoutWrap ==
    (pc = "done" /\ ~reduce) =>
        \A a \in Axes(sizes) :
            bc[a] = "o" =>
                SamePartition(labels,
                    hoshen_kopelman_nd(ClearWrap(bonds, sizes, a), sizes,
                                       [bc EXCEPT ![a] = "p"], FALSE))

\* a step of the boundary pass changes the labels only at a site with
\* coordinate 0 on a periodic axis whose bond is activated, and then it
\* joins the class of that site and the class of the far end, nothing else
C2_BoundaryStep ==
    (pc = "boundary" /\ labels' # labels) =>
        /\ bc[n] = "p"
        /\ bonds[n][pos] # 0
        /\ Coord(sizes, pos, n) = 0
        /\ \A far \in {pos + convert_vec(sizes, n) * (sizes[n] - 1)} :
            \A i, j \in Sites(sizes) :
                (find(i, labels') = find(j, labels')) <=>
                    \/ find(i, labels) = find(j, labels)
                    \/ /\ find(i, labels) \in {find(pos, labels), find(far, labels)}
                       /\ find(j, labels) \in {find(pos, labels), find(far, labels)}

(* C2: the boundary pass merges across the end of axis n only where a      *)
(* periodic bond was requested: a run with bc[n] = 'o' and arbitrary       *)
(* wraparound entries gives the partition of the run with bc[n] = 'p' and  *)
(* those entries inactive, and a step of the pass unites a site at         *)
(* coordinate 0 with the far end only if bc[n] = 'p' and its bond is       *)
(* activated.                                                              *)
C2_MergesOnlyPeriodicBonds ==
    []C2_OpenIsPeriodicWithoutWrap /\ [][C2_BoundaryStep]_vars

\* a finished run with an open axis longer than 2 whose wraparound entry is
\* activated and whose two ends received different labels
C2_Witness ==
    /\ pc = "done" /\ ~reduce
    /\ \E a \in Axes(sizes) :
        /\ bc[a] = "o" /\ sizes[a] >= 3
        /\ \E i \in Sites(sizes) :
            /\ Coord(sizes, i, a) = 0
            /\ bonds[a][i] # 0
            /\ labels[i] # labels[i + convert_vec(sizes, a) * (sizes[a] - 1)]
    /\ \E a \in Axes(sizes) :
        /\ bc[a] = "p"
        /\ \E i \in Sites(sizes) :
            /\ Coord(sizes, i, a) = 0 /\ bonds[a][i] # 0 /\ labels[i] # i

-----------------------------------------------------------------------------
(* C3: in the array returned with reduce=False every entry is a root:      *)
(* labels[labels[i]] = labels[i], find(i) = labels[i], and one more        *)
(* canonicalization pass leaves the array unchanged.                       *)
C3_CanonicalIsIdempotent ==
    (pc = "done" /\ ~reduce) =>
        /\ \A i \in Sites(sizes) :
            /\ labels[labels[i]] = labels[i]
            /\ find(i, labels) = labels[i]
        /\ CanonPass(labels, 0) = labels

\* a finished run whose labels hold a cluster of three sites or more, built
\* with a wraparound union
C3_Witness ==
    /\ pc = "done" /\ ~reduce
    /\ \E i \in Sites(sizes) : Cardinality({j \in Sites(sizes) : labels[j] = labels[i]}) >= 3
    /\ \E a \in Axes(sizes), i \in Sites(sizes) :
        bc[a] = "p" /\ sizes[a] >= 3 /\ Coord(sizes, i, a) = 0 /\ bonds[a][i] # 0

-----------------------------------------------------------------------------
\* site i has an activated bond to a predecessor
HasActiveBond(i) ==
    \E k \in Axes(sizes) : Coord(sizes, i, k) # 0 /\ bonds[k][i] # 0

(* C9 as stated: the primary axis of a site visit is the first axis whose  *)
(* coordinate component is nonzero.                                        *)
C9_PrimaryIsFirstNonzero ==
    pc = "cross" => \A k \in 0..(n - 1) : Coord(sizes, pos, k) = 0

(* C9, amended: the primary axis of a site visit is the first axis whose   *)
(* coordinate is nonzero and whose bond is activated; every visited site   *)
(* that has such an axis got its one primary union, which joined it to the *)
(* predecessor along that axis, and no axis after it is scanned as a       *)
(* primary axis: the later axes are read by the cross-term loop only.      *)
C9_PrimaryIsFirstActive ==
    /\ pc = "cross" =>
        /\ n \in Axes(sizes) /\ m \in (n + 1)..Dim(sizes)
        /\ Coord(sizes, pos, n) # 0 /\ bonds[n][pos] # 0
        /\ \A k \in 0..(n - 1) : Coord(sizes, pos, k) = 0 \/ bonds[k][pos] = 0
        /\ labels[pos] # pos
        /\ find(pos, labels) = find(pos - convert_vec(sizes, n), labels)
    /\ pc \in {"sweep", "cross"} =>
        \A i \in 0..(pos - 1) : HasActiveBond(i) => labels[i] # i

\* a site visit whose first nonzero coordinate has no activated bond and
\* whose primary union is made along a later axis
C9_Witness ==
    /\ pc = "cross"
    /\ n >= 1
    /\ \E k \in 0..(n - 1) : Coord(sizes, pos, k) # 0 /\ bonds[k][pos] = 0

-----------------------------------------------------------------------------
\* following lab from x reaches a fixed point within fuel steps
RECURSIVE ReachesRoot(_, _, _)
ReachesRoot(lab, x, fuel) ==
    \/ lab[x] = x
    \/ fuel > 0 /\ ReachesRoot(lab, lab[x], fuel - 1)

IsForest(lab) ==
    /\ \A x \in DOMAIN lab : lab[x] \in DOMAIN lab
    /\ \A x \in DOMAIN lab : ReachesRoot(lab, x, Cardinality(DOMAIN lab))

\* the label array is a forest, and a site that the main sweep has not
\* visited yet is still its own label
ForestDuringRun ==
    /\ (pc # "done" \/ ~reduce) => IsForest(labels)
    /\ pc = "sweep" => \A i \in pos..(NumSites(sizes) - 1) : labels[i] = i
    /\ pc = "cross" => \A i \in (pos + 1)..(NumSites(sizes) - 1) : labels[i] = i

\* how far the run has come: the loops of the labeler in program order, each
\* counted by its loop variables
Progress ==
    LET N == NumSites(sizes)
        d == Dim(sizes)
        sweepEnd == N * (d + 2)
        boundaryEnd == sweepEnd + d * (N + 1)
    IN  CASE pc = "sweep"    -> pos * (d + 2)
          [] pc = "cross"    -> pos * (d + 2) + m
          [] pc = "boundary" -> sweepEnd + n * (N + 1) + pos
          [] pc = "canon"    -> boundaryEnd + pos
          [] pc = "return"   -> boundaryEnd + N
          [] OTHER           -> boundaryEnd + N + 1

(* C10: at every point of a run, up to the canonicalization, the label     *)
(* array is a forest: every entry is an index of the array and following   *)
(* the labels from any index reaches a fixed point, so every find          *)
(* terminates; a site that the main sweep has not visited yet is still     *)
(* its own label; and the labeler runs to completion: until it has         *)
(* returned it can always take a step, and every step moves it forward     *)
(* through its loops.                                                      *)
C10_LabelsAreForest ==
    /\ []ForestDuringRun
    /\ [](pc # "done" => ENABLED NextHK)
    /\ [][Progress' > Progress]_vars

\* the boundary pass at a site that is not a root and whose far end is
\* already in its class
C10_Witness ==
    /\ pc = "boundary"
    /\ bc[n] = "p" /\ bonds[n][pos] # 0 /\ sizes[n] >= 2
    /\ labels[pos] # pos
    /\ find(pos, labels) = find(pos + convert_vec(sizes, n) * (sizes[n] - 1), labels)

-----------------------------------------------------------------------------
(* get_gapstat_2d *)

\* gap-size grids have at most MaxSize rows
MaxSize == 3

\* the label values of the grids given to get_gapstat_2d
LabelValues == {0, 1}

Cells(sz) == 0..(sz * sz - 1)

Gaps(sz) == 0..(sz - 1)

Bump(hist, s) == [hist EXCEPT ![s] = @ + 1]

\* "lab != bad" with bad = nan: true of every label
NotBad(lab) == TRUE

\* for i, lab in enumerate(line_labels), from column i on; seen holds the
\* dictionaries first_seen and last_seen and the histogram f
RECURSIVE ScanLine(_, _, _, _, _)
ScanLine(lab, sz, row, i, seen) ==
    IF i >= sz THEN seen
    ELSE LET l == lab[row * sz + i]
             next ==
                IF ~NotBad(l) THEN seen
                ELSE IF l \in DOMAIN seen.last_seen
                THEN [first_seen |-> seen.first_seen,
                      last_seen |-> (l :> i) @@ seen.last_seen,
                      f |-> Bump(seen.f, i - seen.last_seen[l])]
                ELSE [first_seen |-> (l :> i) @@ seen.first_seen,
                      last_seen |-> (l :> i) @@ seen.last_seen,
                      f |-> seen.f]
         IN  ScanLine(lab, sz, row, i + 1, next)

\* a wraparound that counts only the labels met twice in the line
WrapLineRepeated(sz, seen) ==
    [s \in Gaps(sz) |->
        seen.f[s] + Cardinality({l \in DOMAIN seen.last_seen :
            /\ seen.first_seen[l] # seen.last_seen[l]
            /\ (sz + seen.first_seen[l] - seen.last_seen[l]) % sz = s})]

\* for lab in last_seen: f[(size + first_seen[lab] - last_seen[lab]) % size] += 1
WrapLine(sz, seen) ==
    [s \in Gaps(sz) |->
        seen.f[s] + Cardinality({l \in DOMAIN seen.last_seen :
            (sz + seen.first_seen[l] - seen.last_seen[l]) % sz = s})]

\* for row in range(size), from row on
RECURSIVE ScanRows(_, _, _, _, _)
ScanRows(lab, sz, b, row, f) ==
    IF row >= sz THEN f
    ELSE LET seen == ScanLine(lab, sz, row, 0,
                              [first_seen |-> <<>>, last_seen |-> <<>>, f |-> f])
         IN  ScanRows(lab, sz, b, row + 1, IF b = "p" THEN WrapLine(sz, seen) ELSE seen.f)

\* np.transpose(labels.reshape([size,size])).ravel()
Transpose(lab, sz) == [k \in Cells(sz) |-> lab[(k % sz) * sz + (k \div sz)]]

get_gapstat_2d(lab, sz, b, both) ==
    LET rows == ScanRows(lab, sz, b, 0, [s \in Gaps(sz) |-> 0])
    IN  IF both
        THEN [f |-> ScanRows(Transpose(lab, sz), sz, b, 0, rows), norm |-> 2 * sz]
        ELSE [f |-> rows, norm |-> sz]

InitGap ==
    /\ size \in 1..MaxSize
    /\ labels \in [Cells(size) -> LabelValues]
    /\ bc \in {"o", "p"}
    /\ both_directions \in BOOLEAN
    /\ gap_stat = None
    /\ pc = "gapstat"
    /\ sizes = None /\ bonds = None /\ pos = None /\ n = None /\ m = None /\ reduce = None
    /\ binned = None /\ LC = None /\ LC_label = None /\ LC_size = None /\ corner = None
    /\ positions = None /\ particle_bin = None /\ clusters = None

GapStat ==
    /\ pc = "gapstat"
    /\ gap_stat' = get_gapstat_2d(labels, size, bc, both_directions)
    /\ pc' = "done"
    /\ UNCHANGED <<labels, bc, size, both_directions, sweepVars>>
    /\ UNCHANGED <<binned, LC, LC_label, LC_size, corner, positions, particle_bin, clusters>>

NextGap == GapStat

SpecGap == InitGap /\ [][NextGap]_vars

-----------------------------------------------------------------------------
RECURSIVE SumUpTo(_, _)
SumUpTo(h, k) == IF k < 0 THEN 0 ELSE h[k] + SumUpTo(h, k - 1)

\* number of times label v occurs in a row
Occurrences(lab, sz, row, v) ==
    Cardinality({c \in Gaps(sz) : lab[row * sz + c] = v})

\* the labels of a row
RowLabels(lab, sz, row) == {lab[row * sz + c] : c \in Gaps(sz)}

RECURSIVE SumOverRows(_, _, _)
SumOverRows(count, sz, row) ==
    IF row >= sz THEN 0 ELSE count[row] + SumOverRows(count, sz, row + 1)

\* one event per (line, label) pair whose label occurs at least twice
PairsRepeated(lab, sz) ==
    SumOverRows([row \in Gaps(sz) |->
        Cardinality({v \in RowLabels(lab, sz, row) : Occurrences(lab, sz, row, v) >= 2})],
        sz, 0)

\* one event per occurrence of a label after its first in the line
RepeatOccurrences(lab, sz) ==
    SumOverRows([row \in Gaps(sz) |-> sz - Cardinality(RowLabels(lab, sz, row))], sz, 0)

\* one event per distinct label of each line, when the boundary is periodic
WrapEvents(lab, sz, b) ==
    IF b = "p"
    THEN SumOverRows([row \in Gaps(sz) |-> Cardinality(RowLabels(lab, sz, row))], sz, 0)
    ELSE 0

(* C4 as stated: scanning one direction, the histogram counts sum to the   *)
(* number of (line, label) pairs whose label occurs at least twice in the  *)
(* line, plus the periodic wrap events; g is the histogram over size.      *)
C4_SumCountsPairs ==
    (pc = "done" /\ ~both_directions) =>
        /\ SumUpTo(gap_stat.f, size - 1) =
                PairsRepeated(labels, size) + WrapEvents(labels, size, bc)
        /\ gap_stat.norm = size

(* C4, amended: scanning one direction, the histogram counts sum to the    *)
(* number of repeat occurrences, one for every occurrence of a label after *)
(* its first in the line (a label met k times in a line gives k - 1), plus *)
(* when bc = 'p' one wrap event per distinct label of each line; g is the  *)
(* histogram over size.                                                    *)
C4_SumCountsRepeats ==
    (pc = "done" /\ ~both_directions) =>
        /\ SumUpTo(gap_stat.f, size - 1) =
                RepeatOccurrences(labels, size) + WrapEvents(labels, size, bc)
        /\ gap_stat.norm = size

\* a periodic scan of a grid with a label met three times in a line and a
\* line of distinct labels
C4_Witness ==
    /\ pc = "done" /\ ~both_directions /\ bc = "p"
    /\ \E row \in Gaps(size), v \in LabelValues : Occurrences(labels, size, row, v) >= 3
    /\ \E row \in Gaps(size) : Cardinality(RowLabels(labels, size, row)) >= 2

-----------------------------------------------------------------------------
(* get_bonds_nd *)

\* the site whose state np.roll(state, 1, axis=a) brings to site i
RolledFrom(sz, i, a) ==
    IF Coord(sz, i, a) = 0
    THEN i + convert_vec(sz, a) * (sz[a] - 1)
    ELSE i - convert_vec(sz, a)

get_bonds_nd(state, sz, bond_type) ==
    [a \in Axes(sz) |-> [i \in Sites(sz) |->
        IF bond_type = "all"
        THEN (IF state[RolledFrom(sz, i, a)] = state[i] THEN 1 ELSE 0)
        ELSE state[RolledFrom(sz, i, a)] * state[i]]]

\* sizes [size,size] and bc 'pp' of the 2d callers
Square(sz) == [k \in 0..1 |-> sz]

PP == [k \in 0..1 |-> "p"]

\* Counter(labels).most_common(1)[0]: the most frequent label, the first met among equals
MostCommon(lab) ==
    CHOOSE mc \in UNION {
        {[label |-> lab[i], count |-> count[i]] :
            i \in {k \in DOMAIN lab :
                    /\ \A j \in DOMAIN lab : count[j] <= count[k]
                    /\ \A j \in 0..(k - 1) : count[j] < count[k]}} :
        count \in {[k \in DOMAIN lab |-> Cardinality({j \in DOMAIN lab : lab[j] = lab[k]})]}} :
        TRUE

-----------------------------------------------------------------------------
(* spatial_tomography.analysis *)

\* the analysed grids have at most MaxHoles unoccupied bins or at most
\* MaxOccupied occupied bins: up to 3 rows that is every grid
MaxHoles == 4

MaxOccupied == 4

GridSizes == 1..4

\* a replacement of the largest cluster by one sentinel value
ExcludeLargestSentinel(lab, lc_label) ==
    [i \in DOMAIN lab |-> IF lab[i] = lc_label THEN Cardinality(DOMAIN lab) ELSE lab[i]]

\* np.where( labels==LC_label, np.arange(size*size), labels )
ExcludeLargest(lab, lc_label) ==
    [i \in DOMAIN lab |-> IF lab[i] = lc_label THEN i ELSE lab[i]]

RECURSIVE WeightedSum(_, _, _, _)
WeightedSum(h, sz, ell, shift) ==
    IF ell >= sz \div 2 THEN 0
    ELSE (ell + shift) * (h[ell] + h[sz - 1 - ell]) + WeightedSum(h, sz, ell + 1, shift)

\* a corner contribution with the weights 1, 2, ... instead of 0, 1, ...
CornerContributionFromOne(gs, sz) ==
    [num |-> WeightedSum(gs.f, sz, 0, 1), den |-> gs.norm * 2 * sz]

\* np.dot( np.arange(size//2), gap_stat[:size//2] + np.flip(gap_stat[size//2:]) ) / (2 * size)
CornerContribution(gs, sz) ==
    [num |-> WeightedSum(gs.f, sz, 0, 0), den |-> gs.norm * 2 * sz]

\* the two slices of gap_stat add up and match np.arange(size//2)
CornerDefined(sz) == sz % 2 = 0 \/ sz = 1

Uniform(sz) == [i \in Cells(sz) |-> 1]

Grids(sz) ==
    {[i \in Cells(sz) |-> IF i \in occ THEN 1 ELSE 0] :
        occ \in {o \in SUBSET Cells(sz) :
                    \/ Cardinality(o) <= MaxOccupied
                    \/ sz * sz - Cardinality(o) <= MaxHoles}}

InitAnalysis ==
    /\ size \in GridSizes
    /\ binned \in Grids(size)
    /\ LC \in {"include", "exclude"}
    /\ pc = "label"
    /\ labels = None /\ LC_label = None /\ LC_size = None /\ gap_stat = None /\ corner = None
    /\ sizes = None /\ bonds = None /\ pos = None /\ n = None /\ m = None /\ reduce = None
    /\ bc = None /\ both_directions = None
    /\ positions = None /\ particle_bin = None /\ clusters = None

analysisFixed == <<size, binned, LC, sweepVars, bc, both_directions, positions, particle_bin,
                   clusters>>

\* identify contiguous clusters from the binned configuration
AnalysisLabel ==
    /\ pc = "label"
    /\ labels' = hoshen_kopelman_nd(get_bonds_nd(binned, Square(size), "one"),
                                    Square(size), PP, FALSE)
    /\ pc' = "mode"
    /\ UNCHANGED <<LC_label, LC_size, gap_stat, corner, analysisFixed>>

\* LC_label, LC_size = Counter(labels).most_common(1)[0][:]
AnalysisLargest ==
    /\ pc = "mode"
    /\ \E mc \in {MostCommon(labels)} :
        /\ LC_label' = mc.label
        /\ LC_size' = mc.count
    /\ pc' = "exclude"
    /\ UNCHANGED <<labels, gap_stat, corner, analysisFixed>>

\* exclude largest cluster (if needed)
AnalysisExclude ==
    /\ pc = "exclude"
    /\ labels' = IF LC = "exclude" THEN ExcludeLargest(labels, LC_label) ELSE labels
    /\ pc' = "gapstat"
    /\ UNCHANGED <<LC_label, LC_size, gap_stat, corner, analysisFixed>>

\* gap-size statistics, g(s)
AnalysisGapStat ==
    /\ pc = "gapstat"
    /\ gap_stat' = get_gapstat_2d(labels, size, "p", TRUE)
    /\ pc' = "corner"
    /\ UNCHANGED <<labels, LC_label, LC_size, corner, analysisFixed>>

\* corner contribution, C(ell)
AnalysisCorner ==
    /\ pc = "corner"
    /\ CornerDefined(size)
    /\ corner' = CornerContribution(gap_stat, size)
    /\ pc' = "done"
    /\ UNCHANGED <<labels, LC_label, LC_size, gap_stat, analysisFixed>>

\* an odd size: the slices of gap_stat have different lengths, numpy raises
AnalysisCornerRaises ==
    /\ pc = "corner"
    /\ ~CornerDefined(size)
    /\ pc' = "error"
    /\ UNCHANGED <<labels, LC_label, LC_size, gap_stat, corner, analysisFixed>>

NextAnalysis ==
    \/ AnalysisLabel
    \/ AnalysisLargest
    \/ AnalysisExclude
    \/ AnalysisGapStat
    \/ AnalysisCorner
    \/ AnalysisCornerRaises

SpecAnalysis == InitAnalysis /\ [][NextAnalysis]_vars

-----------------------------------------------------------------------------
\* the sites of the largest cluster: the bond component of the site LC_label
LargestCluster ==
    Component(get_bonds_nd(binned, Square(size), "one"), Square(size), PP, LC_label)

\* site i shares its label with another site of its row / of its column
SharedInRow(i) ==
    \E j \in Cells(size) : j # i /\ j \div size = i \div size /\ labels[j] = labels[i]

SharedInColumn(i) ==
    \E j \in Cells(size) : j # i /\ j % size = i % size /\ labels[j] = labels[i]

(* C5: with LC='exclude', once the sites of the largest cluster carry      *)
(* their own flat indices, every excluded site carries a label that no     *)
(* other site carries, and the gap events at s >= 1, the ones of a label   *)
(* met twice in a line, all come from sites that are not excluded.         *)
C5_ExcludedSitesAreSingletons ==
    (pc \in {"gapstat", "corner", "done", "error"} /\ LC = "exclude") =>
        \A ex \in {LargestCluster} :
            /\ Cardinality(ex) = LC_size
            /\ \A i \in ex : \A j \in Cells(size) : j # i => labels[j] # labels[i]
            /\ pc # "gapstat" =>
                SumUpTo(gap_stat.f, size - 1) - gap_stat.f[0] =
                    Cardinality({i \in Cells(size) \ ex : SharedInRow(i)})
                    + Cardinality({i \in Cells(size) \ ex : SharedInColumn(i)})

\* an analysis that excluded a cluster of two sites or more and kept a
\* cluster with two sites in a line, one of them in a row with an excluded site
C5_Witness ==
    /\ pc = "done" /\ LC = "exclude" /\ LC_size >= 2
    /\ \E i \in Cells(size) \ LargestCluster :
        /\ SharedInRow(i) \/ SharedInColumn(i)
        /\ \E j \in LargestCluster : j \div size = i \div size

(* C6: for a fully occupied grid of even size, analysis with LC='exclude'  *)
(* finds one cluster of size*size sites and returns a corner contribution  *)
(* of 0: all the gap-histogram weight is on s = 0.                         *)
C6_UniformCornerIsZero ==
    (pc \in {"done", "error"} /\ LC = "exclude" /\ size % 2 = 0 /\ binned = Uniform(size)) =>
        /\ pc = "done"
        /\ LC_size = size * size
        /\ \A s \in 1..(size - 1) : gap_stat.f[s] = 0
        /\ gap_stat.f[0] = 2 * size * size
        /\ corner.num = 0 /\ corner.den > 0

\* the analysis of the fully occupied grid with four rows
C6_Witness ==
    /\ pc = "done" /\ LC = "exclude" /\ size = 4 /\ binned = Uniform(size)
    /\ LC_size = 16

-----------------------------------------------------------------------------
(* cluster_membership.py *)

\* systems of up to MaxBins x MaxBins bins with up to MaxParticles particles,
\* their positions on a grid of 1/Resolution particle diameter
MaxBins == 3

MaxParticles == 3

Resolution == 2

\* int(pos[k]) of a position given in units of 1/Resolution
IntPart(p) == p \div Resolution

Particles(ps) == DOMAIN ps

\* occupied[x,y] = 1 for every particle; occupied[x,y] is entry x*size + y of the array
Occupied(ps, sz) ==
    [c \in Cells(sz) |->
        IF \E i \in Particles(ps) : c = IntPart(ps[i][1]) * sz + IntPart(ps[i][2])
        THEN 1 ELSE 0]

\* particle_bin[i] = size*y + x
ParticleBin(ps, sz) ==
    [i \in Particles(ps) |-> sz * IntPart(ps[i][2]) + IntPart(ps[i][1])]

Max(S) == CHOOSE x \in S : \A y \in S : y <= x

\* for i, lab in enumerate(particle_labels): clusters[lab].append(i), from particle i on
RECURSIVE AppendParticles(_, _, _)
AppendParticles(cl, particle_labels, i) ==
    IF i \notin DOMAIN particle_labels THEN cl
    ELSE AppendParticles([cl EXCEPT ![particle_labels[i]] = Append(@, i)],
                         particle_labels, i + 1)

\* the lists of cl from index k on, without those whose index is in to_pop
RECURSIVE PopAll(_, _, _)
PopAll(cl, to_pop, k) ==
    IF k \notin DOMAIN cl THEN <<>>
    ELSE (IF k \in to_pop THEN <<>> ELSE <<cl[k]>>) \o PopAll(cl, to_pop, k + 1)

\* the lists that cluster_membership returns
ClusterLists(lab, pbin) ==
    LET particle_labels == [i \in DOMAIN pbin |-> lab[pbin[i]]]
        top == Max({lab[i] : i \in DOMAIN lab})
        filled == AppendParticles([v \in 0..top |-> <<>>], particle_labels, 0)
        to_pop == {k \in 0..(top - 1) : Len(filled[k]) <= 1}
    IN  PopAll(filled, to_pop, 0)

InitMembership ==
    /\ size \in 1..MaxBins
    /\ \E k \in 1..MaxParticles :
        positions \in [0..(k - 1) ->
                        (0..(Resolution * size - 1)) \X (0..(Resolution * size - 1))]
    /\ pc = "bin"
    /\ binned = None /\ particle_bin = None /\ labels = None /\ LC_size = None
    /\ clusters = None
    /\ sizes = None /\ bonds = None /\ pos = None /\ n = None /\ m = None /\ reduce = None
    /\ bc = None /\ both_directions = None /\ gap_stat = None
    /\ LC = None /\ LC_label = None /\ corner = None

membershipFixed == <<size, positions, sweepVars, bc, both_directions, gap_stat, LC, LC_label,
                     corner>>

\* bin_positions(positions, size)
BinPositions ==
    /\ pc = "bin"
    /\ binned' = Occupied(positions, size)
    /\ particle_bin' = ParticleBin(positions, size)
    /\ pc' = "membership"
    /\ UNCHANGED <<labels, LC_size, clusters, membershipFixed>>

\* cluster_membership(binned, particle_bin, size)
ClusterMembership ==
    /\ pc = "membership"
    /\ \E lab \in {hoshen_kopelman_nd(get_bonds_nd(binned, Square(size), "one"),
                                      Square(size), PP, FALSE)} :
        /\ labels' = lab
        /\ LC_size' = MostCommon(lab).count
        /\ clusters' = ClusterLists(lab, particle_bin)
    /\ pc' = "done"
    /\ UNCHANGED <<binned, particle_bin, membershipFixed>>

NextMembership ==
    \/ BinPositions
    \/ ClusterMembership

SpecMembership == InitMembership /\ [][NextMembership]_vars

-----------------------------------------------------------------------------
\* the lattice site that bin_positions marked occupied for particle i
OccupiedSite(i) == IntPart(positions[i][1]) * size + IntPart(positions[i][2])

(* C7: every particle is assigned to the cluster of the bin it occupies:   *)
(* particle_bin[i] is the index, in the label array, of the site marked    *)
(* occupied for particle i, so its label is the label of an occupied site, *)
(* and two particles in the same bin or in bond-connected bins get the     *)
(* same label.                                                             *)
C7_ParticleBinIsOccupiedSite ==
    pc = "done" =>
        /\ \A i \in Particles(positions) :
            /\ particle_bin[i] = OccupiedSite(i)
            /\ binned[particle_bin[i]] = 1
        /\ \A i, j \in Particles(positions) :
            OccupiedSite(j) \in Component(get_bonds_nd(binned, Square(size), "one"),
                                          Square(size), PP, OccupiedSite(i))
                => labels[particle_bin[i]] = labels[particle_bin[j]]

(* C8: every cluster list returned by cluster_membership holds at least    *)
(* two particles, the list at the highest label index included.            *)
C8_NoSmallCluster ==
    pc = "done" => \A k \in DOMAIN clusters : Len(clusters[k]) >= 2

====
